---- MODULE Spec2Model ----
(***************************************************************************)
(* A model of the OpenAI adapter (model/openai/openai.go), of the artifact *)
(* loader tool and the function tool                                       *)
(* (tool/loadartifactstool/load_artifacts_tool.go) and of the MCP tool     *)
(* (tool/tool.go) of adk-go.                                               *)
(*                                                                         *)
(* Five specifications share the module:                                   *)
(*   SpecRequest    priming and translation of a request (GenerateContent) *)
(*   SpecGenerate   GenerateContent and the sequence it returns, in batch  *)
(*                  mode and on a configuration error                      *)
(*   SpecTools      Run of the function tool and of the MCP tool           *)
(*   SpecStream     the iterator returned by generateStream                *)
(*   SpecArtifacts  the concurrent fan-out of                              *)
(*                  processLoadArtifactsFunctionCall                       *)
(* Each one leaves the variables of the others at their idle values.       *)
(***************************************************************************)
EXTENDS Integers, Sequences, FiniteSets, TLC

VARIABLES
    \* ---- request translation (openai.go) ----
    contents,      \* req.Contents
    config,        \* req.Config
    calls,         \* number of GenerateContent calls made on the request
    messages,      \* params.Messages of the last translation
    genErr,        \* error of the last translation ("" = nil)
    stream,        \* the stream argument of the last GenerateContent call
    seqKind,       \* the sequence the last call returned: error, batch, stream
    providerCalls, \* number of requests sent to the provider
    completion,    \* what the provider answered to the last batch request
    output,        \* elements the returned sequence has yielded
    \* ---- streaming iterator (openai.go, generateStream) ----
    received,      \* chunks stream.Next() has delivered so far
    yielded,       \* elements handed to yield so far
    spc,           \* position of the iterator function
    streamOpen,    \* the provider stream has not been closed
    stopped,       \* a yield returned false
    streamErr,     \* stream.Err() ("" = nil)
    \* ---- artifact loader (load_artifacts_tool.go) ----
    artifactNames, \* the artifact_names of the detected function response
    artContents,   \* req.Contents of the request being processed
    results,       \* results []*genai.Content, one slot per name
    taskPc,        \* position of each task of the errgroup
    loadErr,       \* the error of each task's Load ("" = nil)
    groupErr,      \* the errgroup's err (set once)
    ctxCancelled,  \* childCtx has been cancelled
    doneOrder,     \* tasks in the order in which they returned
    apc,           \* position of processLoadArtifactsFunctionCall
    artErr,        \* its return value
    \* ---- function tool (load_artifacts_tool.go) and MCP tool (tool.go) ----
    fnTool,          \* the functionTool: its input and output schemas
    fnRun,           \* the last functionTool.Run: arguments, output, result
    mcpRun,          \* the last mcpTool.Run: what the remote side did, result
    mcpRuns,         \* number of mcpTool.Run calls made
    sessionRequests, \* number of getSessionFunc calls made
    remoteCalls      \* number of session.CallTool calls made

requestVars == <<contents, config, calls, messages, genErr,
                 stream, seqKind, providerCalls, completion, output>>
streamVars == <<received, yielded, spc, streamOpen, stopped, streamErr>>
artifactVars == <<artifactNames, artContents, results, taskPc, loadErr, groupErr,
                  ctxCancelled, doneOrder, apc, artErr>>
toolVars == <<fnTool, fnRun, mcpRun, mcpRuns, sessionRequests, remoteCalls>>
vars == <<requestVars, streamVars, artifactVars, toolVars>>

(***************************************************************************)
(* Bounds of the model.                                                    *)
(***************************************************************************)
MaxTurns == 2
MaxCalls == 2
MaxChunks == 3
MaxNames == 3
MaxRuns == 2

(***************************************************************************)
(* genai.Part, genai.Content                                               *)
(***************************************************************************)
NoFunctionResponse == [isSet |-> FALSE]

\* genai.FunctionResponse: its name and, of its Response map, whether it has
\* the key artifact_names, whether the value is a []string, and the value
FunctionResponse(name, hasNames, isStrings, names) ==
    [isSet |-> TRUE, name |-> name, hasArtifactNames |-> hasNames,
     namesAreStrings |-> isStrings, artifactNames |-> names]

NilPart == [isNil |-> TRUE, text |-> "", functionResponse |-> NoFunctionResponse]

TextPart(t) == [isNil |-> FALSE, text |-> t, functionResponse |-> NoFunctionResponse]

FunctionResponsePart(name) ==
    [isNil |-> FALSE, text |-> "",
     functionResponse |-> FunctionResponse(name, FALSE, FALSE, <<>>)]

NilContent == [isNil |-> TRUE, role |-> "", parts |-> <<>>]

Content(role, parts) == [isNil |-> FALSE, role |-> role, parts |-> parts]

\* genai.NewContentFromText
NewContentFromText(text, role) == Content(role, <<TextPart(text)>>)

RoleUser == "user"
RoleModel == "model"

\* The roles newMessages knows, and one it does not.
KnownRoles == {"", RoleUser, RoleModel, "system", "developer"}
Roles == KnownRoles \cup {"tool"}

TurnTexts == {"a", "b"}
InstructionTexts == {"s1", "s2"}

\* The part lists of the turns of the requests that are checked.
PartLists ==
    { <<>>,
      <<TextPart("a")>>,
      <<TextPart("a"), TextPart("b")>>,
      <<FunctionResponsePart("get_weather")>>,
      <<FunctionResponsePart("get_weather"), TextPart("b")>>,
      <<NilPart, TextPart("a")>> }

Turns == {NilContent} \cup {Content(r, p) : r \in Roles, p \in PartLists}

RECURSIVE SeqsUpTo(_, _)
SeqsUpTo(S, n) ==
    IF n = 0 THEN {<<>>}
    ELSE LET shorter == SeqsUpTo(S, n - 1)
         IN shorter \cup {Append(s, x) : s \in {t \in shorter : Len(t) = n - 1}, x \in S}

ContentsInputs == SeqsUpTo(Turns, MaxTurns)

(***************************************************************************)
(* genai.GenerateContentConfig: the fields that decide the messages and    *)
(* the error of the translation.  The other knobs (temperature, top-p,     *)
(* max tokens, stop sequences, candidate count, penalties, logprobs) only  *)
(* copy into fields of params that nothing below reads.                    *)
(***************************************************************************)
NilConfig == [isNil |-> TRUE, topK |-> FALSE, responseMIMEType |-> "",
              systemInstruction |-> NilContent]

Config(topK, mime, si) ==
    [isNil |-> FALSE, topK |-> topK, responseMIMEType |-> mime,
     systemInstruction |-> si]

SystemInstructions ==
    { NilContent,
      Content("system", <<>>),
      Content("system", <<TextPart("s1")>>),
      Content("system", <<TextPart("s1"), TextPart("s2")>>),
      Content("user", <<NilPart, TextPart("s2")>>) }

Configs ==
    {NilConfig}
    \cup {Config(FALSE, "", si) : si \in SystemInstructions}
    \cup { Config(FALSE, "text/plain", Content("system", <<TextPart("s1")>>)),
           Config(FALSE, "application/json", Content("system", <<TextPart("s1")>>)),
           Config(TRUE, "", Content("system", <<TextPart("s1")>>)),
           Config(TRUE, "application/json", NilContent) }

(***************************************************************************)
(* openai.ChatCompletionMessageParamUnion                                  *)
(***************************************************************************)
UserMessage(text) == [role |-> "user", content |-> text]
AssistantMessage(text) == [role |-> "assistant", content |-> text]
SystemMessage(text) == [role |-> "system", content |-> text]
DeveloperMessage(text) == [role |-> "developer", content |-> text]

\* a nil slice of messages, as against an empty one
NilMessages == [isNil |-> TRUE, list |-> <<>>]
Messages(list) == [isNil |-> FALSE, list |-> list]

(***************************************************************************)
(* maybeAppendUserContent                                                  *)
(***************************************************************************)
HandleText == "Handle the requests as specified in the System Instruction."
ContinueText == "Continue processing previous requests as instructed. Exit or provide a summary if no more outputs are needed."

maybeAppendUserContentModelOnly(cs) ==
    LET c1 == IF Len(cs) = 0
              THEN Append(cs, NewContentFromText(HandleText, "user"))
              ELSE cs
        last == c1[Len(c1)]
    IN  IF ~last.isNil /\ last.role = RoleModel
        THEN Append(c1, NewContentFromText(ContinueText, "user"))
        ELSE c1

maybeAppendUserContent(cs) ==
    LET c1 == IF Len(cs) = 0
              THEN Append(cs, NewContentFromText(HandleText, "user"))
              ELSE cs
        last == c1[Len(c1)]
    IN  IF ~last.isNil /\ last.role # "user"
        THEN Append(c1, NewContentFromText(ContinueText, "user"))
        ELSE c1

(***************************************************************************)
(* newMessages, covertContents, covertSystemMessage                        *)
(***************************************************************************)
msgFunc(role, text) ==
    CASE role \in {"", RoleUser} -> UserMessage(text)
      [] role = RoleModel -> AssistantMessage(text)
      [] role = "system" -> SystemMessage(text)
      [] role = "developer" -> DeveloperMessage(text)

newMessagesMerged(role, texts) ==
    IF role \notin KnownRoles THEN NilMessages
    ELSE Messages(<<msgFunc(role, texts[1])>>)

newMessages(role, texts) ==
    IF role \notin KnownRoles THEN NilMessages
    ELSE Messages([i \in 1..Len(texts) |-> msgFunc(role, texts[i])])

\* the closure flushText, on the variables it captures
flushText(msgs, texts, curRole) ==
    IF Len(texts) = 0 THEN [messages |-> msgs, texts |-> texts]
    ELSE LET msg == newMessages(curRole, texts)
         IN  IF msg.isNil THEN [messages |-> msgs, texts |-> texts]
             ELSE [messages |-> msgs \o msg.list, texts |-> <<>>]

\* the inner loop of covertContents: the texts of the non-nil parts
RECURSIVE appendTexts(_, _, _)
appendTexts(texts, parts, j) ==
    IF j > Len(parts) THEN texts
    ELSE LET part == parts[j]
         IN  IF part.isNil THEN appendTexts(texts, parts, j + 1)
             ELSE IF part.text # "" THEN appendTexts(Append(texts, part.text), parts, j + 1)
             ELSE appendTexts(texts, parts, j + 1)

RECURSIVE covertContentsFrom(_, _, _, _)
covertContentsFrom(cs, i, msgs, texts) ==
    IF i > Len(cs) THEN msgs
    ELSE LET content == cs[i]
         IN  IF content.isNil \/ Len(content.parts) = 0
             THEN covertContentsFrom(cs, i + 1, msgs, texts)
             ELSE LET fl == flushText(msgs, appendTexts(texts, content.parts, 1),
                                      content.role)
                  IN  covertContentsFrom(cs, i + 1, fl.messages, fl.texts)

covertContents(cs) == covertContentsFrom(cs, 1, <<>>, <<>>)

RECURSIVE systemMessagesFrom(_, _, _)
systemMessagesFrom(parts, j, msgs) ==
    IF j > Len(parts) THEN msgs
    ELSE LET part == parts[j]
         IN  IF part.isNil THEN systemMessagesFrom(parts, j + 1, msgs)
             ELSE IF part.text # ""
                  THEN systemMessagesFrom(parts, j + 1, Append(msgs, SystemMessage(part.text)))
                  ELSE systemMessagesFrom(parts, j + 1, msgs)

covertSystemMessage(si) ==
    IF si.isNil \/ Len(si.parts) = 0 THEN <<>>
    ELSE systemMessagesFrom(si.parts, 1, <<>>)

(***************************************************************************)
(* applyGenerationConfig, LLMRequest2ChatCompletionNewParams               *)
(***************************************************************************)
ErrTopK == "top_k is not supported"
ErrMIME == "response_mime_type is not supported"

\* the response MIME type is not looked at
applyGenerationConfigAnyMIME(cfg) ==
    IF cfg.isNil THEN [err |-> "", messages |-> <<>>]
    ELSE IF cfg.topK THEN [err |-> ErrTopK, messages |-> <<>>]
    ELSE [err |-> "",
          messages |-> IF ~cfg.systemInstruction.isNil
                       THEN covertSystemMessage(cfg.systemInstruction)
                       ELSE <<>>]

\* the error it returns and the messages it has put into params
applyGenerationConfig(cfg) ==
    IF cfg.isNil THEN [err |-> "", messages |-> <<>>]
    ELSE IF cfg.topK THEN [err |-> ErrTopK, messages |-> <<>>]
    ELSE LET inst == IF ~cfg.systemInstruction.isNil
                     THEN covertSystemMessage(cfg.systemInstruction)
                     ELSE <<>>
         IN  IF cfg.responseMIMEType # "" /\ cfg.responseMIMEType # "text/plain"
             THEN [err |-> ErrMIME, messages |-> inst]
             ELSE [err |-> "", messages |-> inst]

\* the order in which the system messages and the turn messages are put
\* into params.Messages
paramsMessagesTurnsFirst(inst, turnMsgs) == turnMsgs \o inst

paramsMessages(inst, turnMsgs) == inst \o turnMsgs

LLMRequest2ChatCompletionNewParams(cs, cfg) ==
    LET applied == applyGenerationConfig(cfg)
    IN  IF applied.err # "" THEN [err |-> applied.err, messages |-> <<>>]
        ELSE [err |-> "",
              messages |-> paramsMessages(applied.messages, covertContents(cs))]

(***************************************************************************)
(* GenerateContent: priming, then translation                              *)
(***************************************************************************)
\* the provider has answered nothing yet
NoCompletion == [isNil |-> TRUE]

\* GenerateContent(ctx, req, s).  With s set and no error, generateStream
\* sends the streaming request before it returns the sequence.
GenerateContentCall(s) ==
    /\ calls < MaxCalls
    /\ \E primed \in {maybeAppendUserContent(contents)} :
       \E body \in {LLMRequest2ChatCompletionNewParams(primed, config)} :
           /\ contents' = primed
           /\ messages' = body.messages
           /\ genErr' = body.err
           /\ seqKind' = IF body.err # "" THEN "error"
                         ELSE IF s THEN "stream" ELSE "batch"
           /\ providerCalls' = IF body.err = "" /\ s THEN providerCalls + 1
                               ELSE providerCalls
    /\ calls' = calls + 1
    /\ stream' = s
    /\ completion' = NoCompletion
    /\ output' = <<>>
    /\ UNCHANGED config
    /\ UNCHANGED <<streamVars, artifactVars, toolVars>>

GenerateContent == GenerateContentCall(FALSE)

StreamIdle ==
    /\ received = <<>>
    /\ yielded = <<>>
    /\ spc = "idle"
    /\ streamOpen = FALSE
    /\ stopped = FALSE
    /\ streamErr = ""

ArtifactsIdle ==
    /\ artifactNames = <<>>
    /\ artContents = <<>>
    /\ results = <<>>
    /\ taskPc = <<>>
    /\ loadErr = <<>>
    /\ groupErr = ""
    /\ ctxCancelled = FALSE
    /\ doneOrder = <<>>
    /\ apc = "idle"
    /\ artErr = ""

\* no tool has been built, no Run has been made
NoTool == [isNil |-> TRUE]
NoRun == [ran |-> FALSE]

ToolsIdle ==
    /\ fnTool = NoTool
    /\ fnRun = NoRun
    /\ mcpRun = NoRun
    /\ mcpRuns = 0
    /\ sessionRequests = 0
    /\ remoteCalls = 0

\* no sequence has been returned yet
SequenceIdle ==
    /\ stream = FALSE
    /\ seqKind = "none"
    /\ providerCalls = 0
    /\ completion = NoCompletion
    /\ output = <<>>

RequestIdle ==
    /\ contents = <<>>
    /\ config = NilConfig
    /\ calls = 0
    /\ messages = <<>>
    /\ genErr = ""
    /\ SequenceIdle

InitRequest ==
    /\ contents \in ContentsInputs
    /\ config \in Configs
    /\ calls = 0
    /\ messages = <<>>
    /\ genErr = ""
    /\ SequenceIdle
    /\ StreamIdle
    /\ ArtifactsIdle
    /\ ToolsIdle

NextRequest == GenerateContent

SpecRequest == InitRequest /\ [][NextRequest]_vars

(***************************************************************************)
(* Helpers of the properties of the request translation.                   *)
(***************************************************************************)
Translated == calls >= 1 /\ genErr = ""

FromInstruction(m) == m.content \in InstructionTexts

\* the messages built from the turns, as they stand in params.Messages
TurnMessages == SelectSeq(messages, LAMBDA m : ~FromInstruction(m))

IsTextPart(p) == ~p.isNil /\ p.text # ""

TextsOf(c) == SelectSeq(c.parts, IsTextPart)

Recognised(c) == ~c.isNil /\ c.role \in KnownRoles

\* the provider role the role mapping names for a role of a turn
MappedRole(role) ==
    CASE role \in {"", "user"} -> "user"
      [] role = "model" -> "assistant"
      [] role = "system" -> "system"
      [] role = "developer" -> "developer"
      [] OTHER -> "none"

\* one message per text part of every turn with a recognised role
RECURSIVE PerPartMessages(_)
PerPartMessages(cs) ==
    IF cs = <<>> THEN <<>>
    ELSE LET c == Head(cs)
             own == IF Recognised(c)
                    THEN [k \in 1..Len(TextsOf(c)) |->
                            [role |-> MappedRole(c.role), content |-> TextsOf(c)[k].text]]
                    ELSE <<>>
         IN  own \o PerPartMessages(Tail(cs))

RECURSIVE IsSubsequence(_, _)
IsSubsequence(s, t) ==
    IF s = <<>> THEN TRUE
    ELSE IF t = <<>> THEN FALSE
    ELSE IF Head(s) = Head(t) THEN IsSubsequence(Tail(s), Tail(t))
    ELSE IsSubsequence(s, Tail(t))

RemoveAt(s, i) == SubSeq(s, 1, i - 1) \o SubSeq(s, i + 1, Len(s))

\* the turns with a recognised role and one or more text parts, in order
TextTurns(cs) == SelectSeq(cs, LAMBDA c : Recognised(c) /\ Len(TextsOf(c)) > 0)

(***************************************************************************)
(* C2 (as stated): the system messages of the system instruction come      *)
(* after all the messages built from the turns.                            *)
(***************************************************************************)
C2_SystemAfterTurns ==
    Translated =>
        \A i, j \in 1..Len(messages) :
            (FromInstruction(messages[i]) /\ ~FromInstruction(messages[j])) => j < i

(***************************************************************************)
(* C2 (amended): the system messages of the system instruction come        *)
(* before all the messages built from the turns.                           *)
(***************************************************************************)
C2_SystemBeforeTurns ==
    Translated =>
        \A i, j \in 1..Len(messages) :
            (FromInstruction(messages[i]) /\ ~FromInstruction(messages[j])) => i < j

C2_Witness ==
    /\ Translated
    /\ \E i, j \in 1..Len(messages) :
          FromInstruction(messages[i]) /\ ~FromInstruction(messages[j])
    /\ \E c \in 1..Len(contents) : Len(TextsOf(contents[c])) > 0 /\ contents[c].role = "model"

(***************************************************************************)
(* C3: every text part of a turn with a recognised role shows up in a      *)
(* message of the mapped role, and a turn with any other role is dropped:  *)
(* the messages are those of the same turns with that turn removed.        *)
(***************************************************************************)
C3_RoleMappingAndDrop ==
    Translated =>
        /\ \A i \in 1..Len(contents) :
              Recognised(contents[i]) =>
                  \A k \in 1..Len(TextsOf(contents[i])) :
                      \E m \in 1..Len(TurnMessages) :
                          /\ TurnMessages[m].role = MappedRole(contents[i].role)
                          /\ TurnMessages[m].content = TextsOf(contents[i])[k].text
        /\ \A i \in 1..Len(contents) :
              (~contents[i].isNil /\ contents[i].role \notin KnownRoles) =>
                  TurnMessages = covertContents(RemoveAt(contents, i))

(***************************************************************************)
(* C4 (as stated): a turn with a recognised role and one or more text      *)
(* parts gives exactly one message of the matching role, in turn order.    *)
(***************************************************************************)
C4_OneMessagePerTurn ==
    Translated =>
        /\ Len(TurnMessages) = Len(TextTurns(contents))
        /\ \A k \in 1..Len(TurnMessages) :
              k <= Len(TextTurns(contents)) =>
                  TurnMessages[k].role = MappedRole(TextTurns(contents)[k].role)

(***************************************************************************)
(* C4 (amended): every text part of a turn with a recognised role gives    *)
(* one message of its own, of the matching role; these messages appear in  *)
(* turn order and part order, and when every turn has a recognised role    *)
(* they are all the messages built from the turns.                         *)
(***************************************************************************)
C4_OneMessagePerTextPart ==
    Translated =>
        /\ IsSubsequence(PerPartMessages(contents), TurnMessages)
        /\ (\A i \in 1..Len(contents) : contents[i].isNil \/ Recognised(contents[i]))
              => TurnMessages = PerPartMessages(contents)

C4_Witness ==
    /\ Translated
    /\ \E i \in 1..Len(contents) :
          /\ Recognised(contents[i])
          /\ Len(TextsOf(contents[i])) = 2
          /\ contents[i].role = "developer"
    /\ \E m \in 1..Len(TurnMessages) :
          /\ m < Len(TurnMessages)
          /\ TurnMessages[m] = DeveloperMessage("a")
          /\ TurnMessages[m + 1] = DeveloperMessage("b")

(***************************************************************************)
(* C5: a GenerateContent call primes the request: an empty request gains   *)
(* one synthetic user turn, a request ending in a user turn keeps its      *)
(* turns, a request ending in a turn of another role gains one synthetic   *)
(* user turn at the end; the turns present are kept as they are, and a     *)
(* second call on the same request adds nothing.                           *)
(***************************************************************************)
PrimingStep ==
    LET n == Len(contents)
        n2 == Len(contents')
    IN  /\ (n = 0 =>
              /\ n2 = 1
              /\ contents'[1] = NewContentFromText(HandleText, "user"))
        /\ (n > 0 /\ ~contents[n].isNil /\ contents[n].role = "user" => n2 = n)
        /\ (n > 0 /\ ~contents[n].isNil /\ contents[n].role # "user" =>
              /\ n2 = n + 1
              /\ contents'[n2].role = "user"
              /\ Len(contents'[n2].parts) = 1
              /\ IsTextPart(contents'[n2].parts[1]))
        /\ n2 >= n
        /\ SubSeq(contents', 1, n) = contents
        /\ (calls >= 1 => contents' = contents)

C5_Priming == [][calls' = calls + 1 => PrimingStep]_vars

C5_Witness ==
    /\ calls = 2
    /\ Len(contents) = 3
    /\ contents[2].role = "system"
    /\ contents[3] = NewContentFromText(ContinueText, "user")

(***************************************************************************)
(* openai.ChatCompletionChunk, model.LLMResponse                           *)
(***************************************************************************)
Choice(content, finish) == [content |-> content, finishReason |-> finish]

Usage(p, c, t, r) ==
    [promptTokens |-> p, completionTokens |-> c, totalTokens |-> t,
     reasoningTokens |-> r]

\* the zero value of the usage field of a chunk that carries no usage
ZeroUsage == Usage(0, 0, 0, 0)

Chunk(choices, usageValid, usage) ==
    [choices |-> choices, usageValid |-> usageValid, usage |-> usage]

ChoiceLists ==
    {<<>>}
    \cup {<<Choice(c, f)>> : c \in {"", "Hel"}, f \in {"", "stop", "length", "content_filter"}}
    \cup {<<Choice("Hel", ""), Choice("lo", "stop")>>}

\* the chunks the provider stream may deliver
ChunkInputs ==
    {Chunk(cs, FALSE, ZeroUsage) : cs \in ChoiceLists}
    \cup {Chunk(cs, TRUE, Usage(3, 2, 5, 1)) : cs \in ChoiceLists}

\* the errors the provider stream may end with ("" = none)
StreamErrors == {"", "unexpected EOF"}

NilUsageMetadata == [isNil |-> TRUE]

NilResponse == [isNil |-> TRUE]

LLMResponse(content, usage, partial, turnComplete, finish) ==
    [isNil |-> FALSE, content |-> content, usageMetadata |-> usage,
     partial |-> partial, turnComplete |-> turnComplete, finishReason |-> finish,
     errorCode |-> "", errorMessage |-> ""]

\* the conversion int32(x) of an int64.  The token counts of this model lie
\* in 0..2^31-1, where the conversion keeps the value.
Int32(x) == x

convertUsage(usage) ==
    [isNil |-> FALSE,
     promptTokenCount |-> Int32(usage.promptTokens),
     candidatesTokenCount |-> Int32(usage.completionTokens),
     totalTokenCount |-> Int32(usage.totalTokens),
     thoughtsTokenCount |-> Int32(usage.reasoningTokens)]

finishReason(reason) ==
    CASE reason = "stop" -> "STOP"
      [] reason = "length" -> "MAX_TOKENS"
      [] reason = "tool_calls" -> "STOP"
      [] reason = "content_filter" -> "SAFETY"
      [] reason = "function_call" -> "STOP"
      [] OTHER -> "STOP"

\* the usage of a finish-reason chunk is not attached
convertChoiceChunkNoUsage(chunk) ==
    LET choice == chunk.choices[1]
        content == Content(RoleModel,
                           IF choice.content # ""
                           THEN <<TextPart(choice.content)>>
                           ELSE <<>>)
    IN  IF choice.finishReason # ""
        THEN LLMResponse(content, NilUsageMetadata,
                         FALSE, TRUE, finishReason(choice.finishReason))
        ELSE LLMResponse(content, NilUsageMetadata, TRUE, FALSE, "")

\* convertChunk, for a chunk with one choice or more
convertChoiceChunk(chunk) ==
    LET choice == chunk.choices[1]
        content == Content(RoleModel,
                           IF choice.content # ""
                           THEN <<TextPart(choice.content)>>
                           ELSE <<>>)
    IN  IF choice.finishReason # ""
        THEN LLMResponse(content,
                         IF chunk.usageValid THEN convertUsage(chunk.usage)
                         ELSE NilUsageMetadata,
                         FALSE, TRUE, finishReason(choice.finishReason))
        ELSE LLMResponse(content, NilUsageMetadata, TRUE, FALSE, "")

\* a finish-reason chunk is left partial
convertChunkKeepsPartial(chunk) ==
    IF Len(chunk.choices) = 0
    THEN IF chunk.usageValid
         THEN LLMResponse(NilContent, convertUsage(chunk.usage), FALSE, TRUE, "")
         ELSE NilResponse
    ELSE [convertChoiceChunk(chunk) EXCEPT !.partial = TRUE]

\* a chunk with no choice and no usage is forwarded as an empty event
convertChunkNoSuppress(chunk) ==
    IF Len(chunk.choices) = 0
    THEN LLMResponse(NilContent,
                     IF chunk.usageValid THEN convertUsage(chunk.usage)
                     ELSE NilUsageMetadata,
                     FALSE, TRUE, "")
    ELSE convertChoiceChunk(chunk)

convertChunk(chunk) ==
    IF Len(chunk.choices) = 0
    THEN IF chunk.usageValid
         THEN LLMResponse(NilContent, convertUsage(chunk.usage), FALSE, TRUE, "")
         ELSE NilResponse
    ELSE convertChoiceChunk(chunk)

(***************************************************************************)
(* generateStream: the iterator function.  It is suspended in every yield, *)
(* so a step of it runs from one yield to the next.                        *)
(*   created   generateStream has returned, the stream is open             *)
(*   loop      at stream.Next()                                            *)
(*   yield     in yield(resp, nil)                                         *)
(*   yieldErr  in yield(nil, err)                                          *)
(*   done      the iterator function has returned                          *)
(***************************************************************************)
StreamElement(resp, err) == [resp |-> resp, err |-> err]

WrapStreamErr(err) == <<"failed to generate stream content: ", err>>

\* defer stream.Close(): whether the stream is open after the function
\* has returned by the given path
openAfterReturnNotOnStop(path) == path = "stop"

openAfterReturn(path) == FALSE

\* if !yield(resp, nil) { return }: where the function goes on
afterYieldIgnoringStop(ok) == "loop"

afterYield(ok) == IF ok THEN "loop" ELSE "done"

\* the consumer starts to range over the sequence
StartIteration ==
    /\ spc = "created"
    /\ spc' = "loop"
    /\ UNCHANGED <<received, yielded, streamOpen, stopped, streamErr>>
    /\ UNCHANGED <<requestVars, artifactVars, toolVars>>

\* stream.Next() delivers a chunk
StreamNext ==
    /\ spc = "loop"
    /\ Len(received) < MaxChunks
    /\ \E chunk \in ChunkInputs :
          LET resp == convertChunk(chunk)
          IN  /\ received' = Append(received, chunk)
              /\ IF ~resp.isNil
                 THEN /\ yielded' = Append(yielded, StreamElement(resp, ""))
                      /\ spc' = "yield"
                 ELSE /\ yielded' = yielded
                      /\ spc' = "loop"
    /\ UNCHANGED <<streamOpen, stopped, streamErr>>
    /\ UNCHANGED <<requestVars, artifactVars, toolVars>>

\* yield(resp, nil) returns
YieldReturns ==
    /\ spc = "yield"
    /\ \E ok \in BOOLEAN :
          /\ stopped' = ~ok
          /\ spc' = afterYield(ok)
          /\ streamOpen' = IF afterYield(ok) = "done" THEN openAfterReturn("stop")
                           ELSE streamOpen
    /\ UNCHANGED <<received, yielded, streamErr>>
    /\ UNCHANGED <<requestVars, artifactVars, toolVars>>

\* stream.Next() returns false: the stream is exhausted or has failed
StreamEnds ==
    /\ spc = "loop"
    /\ \E err \in StreamErrors :
          /\ streamErr' = err
          /\ IF err # ""
             THEN /\ yielded' = Append(yielded, StreamElement(NilResponse, WrapStreamErr(err)))
                  /\ spc' = "yieldErr"
                  /\ streamOpen' = streamOpen
             ELSE /\ yielded' = yielded
                  /\ spc' = "done"
                  /\ streamOpen' = openAfterReturn("exhausted")
    /\ UNCHANGED <<received, stopped>>
    /\ UNCHANGED <<requestVars, artifactVars, toolVars>>

\* yield(nil, err) returns; its result is not read
YieldErrReturns ==
    /\ spc = "yieldErr"
    /\ \E ok \in BOOLEAN : stopped' = ~ok
    /\ spc' = "done"
    /\ streamOpen' = openAfterReturn("error")
    /\ UNCHANGED <<received, yielded, streamErr>>
    /\ UNCHANGED <<requestVars, artifactVars, toolVars>>

InitStream ==
    /\ received = <<>>
    /\ yielded = <<>>
    /\ spc = "created"
    /\ streamOpen = TRUE
    /\ stopped = FALSE
    /\ streamErr = ""
    /\ RequestIdle
    /\ ArtifactsIdle
    /\ ToolsIdle

NextStream ==
    \/ StartIteration
    \/ StreamNext
    \/ YieldReturns
    \/ StreamEnds
    \/ YieldErrReturns

SpecStream == InitStream /\ [][NextStream]_vars

(***************************************************************************)
(* Helpers of the properties of the streaming iterator.                    *)
(***************************************************************************)
IsErrorElement(e) == e.err # ""

\* the events emitted so far: the responses of the elements without error
Events ==
    LET evs == SelectSeq(yielded, LAMBDA e : ~IsErrorElement(e))
    IN  [i \in 1..Len(evs) |-> evs[i].resp]

\* what the description of the stream says of a chunk: it gives an event
GivesEvent(chunk) == Len(chunk.choices) > 0 \/ chunk.usageValid

\* the number of events the first i chunks received give
EventsUpTo(i) == Cardinality({j \in 1..i : GivesEvent(received[j])})

(***************************************************************************)
(* C1 (as stated): a partial event has no finish reason, and the only      *)
(* event with a finish reason is the last event of the sequence, which is  *)
(* not partial and is turn-complete.                                       *)
(***************************************************************************)
C1_FinishReasonOnlyOnLastEvent ==
    spc = "done" =>
        \A i \in 1..Len(Events) :
            /\ Events[i].partial => Events[i].finishReason = ""
            /\ Events[i].finishReason # "" =>
                  /\ i = Len(Events)
                  /\ ~Events[i].partial
                  /\ Events[i].turnComplete

(***************************************************************************)
(* C1 (amended): a partial event has no finish reason, and every event     *)
(* with a finish reason is not partial and is turn-complete (events of     *)
(* later chunks may follow it).                                            *)
(***************************************************************************)
C1_PartialHasNoFinishReason ==
    \A i \in 1..Len(Events) :
        /\ Events[i].partial => Events[i].finishReason = ""
        /\ Events[i].finishReason # "" =>
              /\ ~Events[i].partial
              /\ Events[i].turnComplete

C1_Witness ==
    /\ spc = "done"
    /\ Len(Events) = 3
    /\ Events[1].partial
    /\ Events[2].finishReason = "MAX_TOKENS"
    /\ Events[3].finishReason = "" /\ Events[3].turnComplete

(***************************************************************************)
(* C6: when the iteration has started and has ended, by whichever path,    *)
(* the provider stream is closed.                                          *)
(***************************************************************************)
C6_StreamClosedOnEveryExit == spc = "done" => ~streamOpen

C6_Witness ==
    /\ spc = "done"
    /\ stopped
    /\ streamErr = ""
    /\ Len(received) = 2
    /\ ~streamOpen

(***************************************************************************)
(* C7: a terminal provider error is yielded as one element without         *)
(* response, after the events of all the chunks received, and it is the    *)
(* last element; once a yield has returned false, no element is yielded    *)
(* and no chunk is read any more.                                          *)
(***************************************************************************)
ErrorIsTerminal ==
    /\ \A i \in 1..Len(yielded) :
          IsErrorElement(yielded[i]) =>
              /\ i = Len(yielded)
              /\ yielded[i].resp = NilResponse
              /\ yielded[i].err = WrapStreamErr(streamErr)
              /\ i - 1 = EventsUpTo(Len(received))
    /\ (streamErr # "" =>
          /\ Len(yielded) > 0
          /\ IsErrorElement(yielded[Len(yielded)]))

C7_ErrorLastAndStopRespected ==
    [][ /\ ErrorIsTerminal'
        /\ (stopped => (yielded' = yielded /\ received' = received)) ]_vars

C7_Witness ==
    /\ spc = "done"
    /\ streamErr # ""
    /\ Len(yielded) = 3
    /\ IsErrorElement(yielded[3])
    /\ Len(received) = 3

(***************************************************************************)
(* C8: every chunk gives at most one event and the events come in the      *)
(* order of the chunks: a chunk with a choice gives one event built from   *)
(* its first choice; a chunk with no choice and valid usage gives one      *)
(* turn-complete event with the usage, no content and no finish reason; a  *)
(* chunk with no choice and no usage gives nothing; a finish-reason chunk  *)
(* carries usage only if the chunk had valid usage.                        *)
(***************************************************************************)
EventMatchesChunk(e, chunk) ==
    IF Len(chunk.choices) > 0
    THEN LET first == chunk.choices[1]
         IN  /\ ~e.content.isNil
             /\ e.content.role = "model"
             /\ e.content.parts = IF first.content = "" THEN <<>>
                                  ELSE <<TextPart(first.content)>>
             /\ (e.finishReason # "" <=> first.finishReason # "")
             /\ (~e.usageMetadata.isNil =>
                    /\ chunk.usageValid
                    /\ first.finishReason # ""
                    /\ e.usageMetadata.promptTokenCount = chunk.usage.promptTokens
                    /\ e.usageMetadata.candidatesTokenCount = chunk.usage.completionTokens
                    /\ e.usageMetadata.totalTokenCount = chunk.usage.totalTokens)
    ELSE /\ e.turnComplete
         /\ e.content.isNil
         /\ e.finishReason = ""
         /\ ~e.usageMetadata.isNil
         /\ e.usageMetadata.promptTokenCount = chunk.usage.promptTokens
         /\ e.usageMetadata.candidatesTokenCount = chunk.usage.completionTokens
         /\ e.usageMetadata.totalTokenCount = chunk.usage.totalTokens

C8_OneEventPerChunkInOrder ==
    /\ Len(Events) = EventsUpTo(Len(received))
    /\ \A i \in 1..Len(received) :
          GivesEvent(received[i]) =>
              /\ EventsUpTo(i) <= Len(Events)
              /\ EventMatchesChunk(Events[EventsUpTo(i)], received[i])

C8_Witness ==
    /\ Len(received) = 3
    /\ Len(received[1].choices) = 2
    /\ ~GivesEvent(received[2])
    /\ Len(received[3].choices) = 0 /\ received[3].usageValid
    /\ Len(Events) = 2
    /\ Events[2].turnComplete /\ Events[2].content.isNil

(***************************************************************************)
(* The artifact loader: processLoadArtifactsFunctionCall.                  *)
(***************************************************************************)
ArtifactNameSet == {"x", "y"}

LoadArtifactsPart(hasNames, isStrings, names) ==
    [isNil |-> FALSE, text |-> "",
     functionResponse |-> FunctionResponse("load_artifacts", hasNames, isStrings, names)]

\* the requests the tool is run on; the parts of their turns are not nil
ArtifactRequests ==
    {<<>>}
    \cup { <<NewContentFromText("a", "user"), Content("user", <<p>>)>> :
             p \in {LoadArtifactsPart(TRUE, TRUE, ns) : ns \in SeqsUpTo(ArtifactNameSet, MaxNames)}
                   \cup { LoadArtifactsPart(FALSE, FALSE, <<>>),
                          LoadArtifactsPart(TRUE, FALSE, <<>>),
                          FunctionResponsePart("get_weather"),
                          TextPart("b") } }
    \cup { <<Content("user", <<>>)>>,
           <<NilContent>>,
           <<Content("user", <<TextPart("b"), LoadArtifactsPart(TRUE, TRUE, <<"x">>)>>)>> }

ErrNamesType == "invalid artifact names type"

\* every part of the last turn is inspected, the first one that is a
\* load_artifacts result with a list of names is taken
detectAnyPart(cs) ==
    IF Len(cs) = 0 THEN [kind |-> "noop"]
    ELSE LET lastContent == cs[Len(cs)]
             hits == {j \in 1..Len(lastContent.parts) :
                         LET fr == lastContent.parts[j].functionResponse
                         IN  /\ fr.isSet
                             /\ fr.name = "load_artifacts"
                             /\ fr.hasArtifactNames
                             /\ fr.namesAreStrings
                             /\ Len(fr.artifactNames) > 0}
         IN  IF lastContent.isNil \/ hits = {} THEN [kind |-> "noop"]
             ELSE [kind |-> "load",
                   names |-> lastContent.parts[CHOOSE j \in hits : \A k \in hits : j <= k]
                                 .functionResponse.artifactNames]

\* the checks before the fan-out: nothing to do, an error, or the names
\* (firstPart.FunctionResponse of a nil first part is a nil dereference)
detect(cs) ==
    IF Len(cs) = 0 THEN [kind |-> "noop"]
    ELSE LET lastContent == cs[Len(cs)]
         IN  IF lastContent.isNil \/ Len(lastContent.parts) = 0 THEN [kind |-> "noop"]
             ELSE IF lastContent.parts[1].isNil THEN [kind |-> "panic"]
             ELSE LET fr == lastContent.parts[1].functionResponse
                  IN  IF ~fr.isSet THEN [kind |-> "noop"]
                      ELSE IF fr.name # "load_artifacts" THEN [kind |-> "noop"]
                      ELSE IF ~fr.hasArtifactNames THEN [kind |-> "noop"]
                      ELSE IF ~fr.namesAreStrings THEN [kind |-> "error"]
                      ELSE IF Len(fr.artifactNames) = 0 THEN [kind |-> "noop"]
                      ELSE [kind |-> "load", names |-> fr.artifactNames]

\* the errors Load may return
LoadErrors(cancelled) ==
    {"not found"} \cup (IF cancelled THEN {"context canceled"} ELSE {})

\* resp.Part of a successful Load
ArtifactPart(name) ==
    [isNil |-> FALSE, text |-> "", functionResponse |-> NoFunctionResponse,
     artifact |-> name]

\* loadIndividualArtifact, when Load succeeds
loadIndividualArtifact(name) ==
    Content(RoleUser, <<TextPart(<<"Artifact ", name, " is:">>), ArtifactPart(name)>>)

\* the error a task returns when its Load has failed with err
TaskError(name, err) ==
    <<"failed to load artifact ", name, ": ",
      <<"failed to load artifact ", name, ": ", err>> >>

\* a result is put into the first free slot
storeResultFirstFree(res, i, content) ==
    LET free == {j \in 1..Len(res) : res[j].isNil}
        first == CHOOSE j \in free : \A k \in free : j <= k
    IN  [res EXCEPT ![first] = content]

\* results[i] = content
storeResult(res, i, content) == [res EXCEPT ![i] = content]

\* the turns that were loaded are appended although a task has failed
contentsAfterWaitBestEffort(err, cs, res) ==
    cs \o SelectSeq(res, LAMBDA c : ~c.isNil)

\* if err := group.Wait(); err != nil { return err }; append(...)
contentsAfterWait(err, cs, res) == IF err # "" THEN cs ELSE cs \o res

Tasks == 1..Len(artifactNames)

\* the checks, and the start of one task per name
StartLoadArtifacts ==
    /\ apc = "start"
    /\ LET d == detect(artContents)
       IN  IF d.kind = "load"
           THEN /\ artifactNames' = d.names
                /\ results' = [i \in 1..Len(d.names) |-> NilContent]
                /\ taskPc' = [i \in 1..Len(d.names) |-> "ready"]
                /\ loadErr' = [i \in 1..Len(d.names) |-> ""]
                /\ apc' = "wait"
                /\ artErr' = artErr
           ELSE /\ apc' = IF d.kind = "panic" THEN "panicked" ELSE "returned"
                /\ artErr' = IF d.kind = "error" THEN ErrNamesType ELSE ""
                /\ UNCHANGED <<artifactNames, results, taskPc, loadErr>>
    /\ UNCHANGED <<artContents, groupErr, ctxCancelled, doneOrder>>
    /\ UNCHANGED <<requestVars, streamVars, toolVars>>

\* artifactsService.Load(childCtx, artifactName) returns in task i
TaskLoad(i) ==
    /\ apc = "wait"
    /\ taskPc[i] = "ready"
    /\ \E err \in {""} \cup LoadErrors(ctxCancelled) :
          /\ loadErr' = [loadErr EXCEPT ![i] = err]
          /\ taskPc' = [taskPc EXCEPT ![i] = "loaded"]
    /\ UNCHANGED <<artifactNames, artContents, results, groupErr, ctxCancelled,
                   doneOrder, apc, artErr>>
    /\ UNCHANGED <<requestVars, streamVars, toolVars>>

\* task i stores its result, or returns its error to the group: the first
\* error is kept and cancels childCtx
TaskReturn(i) ==
    /\ apc = "wait"
    /\ taskPc[i] = "loaded"
    /\ IF loadErr[i] # ""
       THEN /\ groupErr' = IF groupErr = ""
                           THEN TaskError(artifactNames[i], loadErr[i])
                           ELSE groupErr
            /\ ctxCancelled' = TRUE
            /\ results' = results
       ELSE /\ results' = storeResult(results, i, loadIndividualArtifact(artifactNames[i]))
            /\ UNCHANGED <<groupErr, ctxCancelled>>
    /\ taskPc' = [taskPc EXCEPT ![i] = "done"]
    /\ doneOrder' = Append(doneOrder, i)
    /\ UNCHANGED <<artifactNames, artContents, loadErr, apc, artErr>>
    /\ UNCHANGED <<requestVars, streamVars, toolVars>>

\* group.Wait() returns when every task has returned
WaitReturns ==
    /\ apc = "wait"
    /\ \A i \in Tasks : taskPc[i] = "done"
    /\ ctxCancelled' = TRUE
    /\ artErr' = groupErr
    /\ artContents' = contentsAfterWait(groupErr, artContents, results)
    /\ apc' = "returned"
    /\ UNCHANGED <<artifactNames, results, taskPc, loadErr, groupErr, doneOrder>>
    /\ UNCHANGED <<requestVars, streamVars, toolVars>>

InitArtifacts ==
    /\ artContents \in ArtifactRequests
    /\ artifactNames = <<>>
    /\ results = <<>>
    /\ taskPc = <<>>
    /\ loadErr = <<>>
    /\ groupErr = ""
    /\ ctxCancelled = FALSE
    /\ doneOrder = <<>>
    /\ apc = "start"
    /\ artErr = ""
    /\ RequestIdle
    /\ StreamIdle
    /\ ToolsIdle

NextArtifacts ==
    \/ StartLoadArtifacts
    \/ \E i \in Tasks : TaskLoad(i)
    \/ \E i \in Tasks : TaskReturn(i)
    \/ WaitReturns

SpecArtifacts == InitArtifacts /\ [][NextArtifacts]_vars

(***************************************************************************)
(* Helpers of the properties of the artifact loader.                       *)
(***************************************************************************)
\* the tasks that have returned an error
Failed == {i \in Tasks : taskPc[i] = "done" /\ loadErr[i] # ""}

\* the place in doneOrder of the first task that returned an error
FirstFailure ==
    CHOOSE k \in 1..Len(doneOrder) :
        /\ doneOrder[k] \in Failed
        /\ \A j \in 1..(k - 1) : doneOrder[j] \notin Failed

FirstError ==
    TaskError(artifactNames[doneOrder[FirstFailure]], loadErr[doneOrder[FirstFailure]])

(***************************************************************************)
(* C9: when every Load succeeds, whatever the order in which the tasks     *)
(* run and return, exactly one user turn per name is appended, the i-th    *)
(* one for the i-th name (its label, then its content part); nothing is    *)
(* appended before all the tasks have returned.                            *)
(***************************************************************************)
C9_ArtifactTurnsInNameOrder ==
    /\ apc = "wait" => detect(artContents).kind = "load"
    /\ (apc = "returned" /\ Len(artifactNames) > 0 /\ \A i \in Tasks : loadErr[i] = "") =>
          LET k == Len(artifactNames)
              n == Len(artContents)
          IN  /\ artErr = ""
              /\ n > k
              /\ detect(SubSeq(artContents, 1, n - k)).kind = "load"
              /\ detect(SubSeq(artContents, 1, n - k)).names = artifactNames
              /\ \A i \in 1..k :
                    /\ artContents[n - k + i].role = "user"
                    /\ artContents[n - k + i].parts =
                          << TextPart(<<"Artifact ", artifactNames[i], " is:">>),
                             ArtifactPart(artifactNames[i]) >>

C9_Witness ==
    /\ apc = "returned"
    /\ artifactNames = <<"x", "y", "x">>
    /\ doneOrder = <<2, 3, 1>>
    /\ artErr = ""
    /\ Len(artContents) = 5

(***************************************************************************)
(* C10: when a task fails, the shared context is cancelled from the first  *)
(* failure on, the error returned is that of the first task that failed,   *)
(* and the turns of the request are never changed: they change only when   *)
(* every task has returned and none has failed.                            *)
(***************************************************************************)
FailFast ==
    /\ (apc = "wait" => (ctxCancelled <=> Failed # {}))
    /\ (Failed # {} =>
          /\ ctxCancelled
          /\ groupErr = FirstError
          /\ (apc = "returned" => artErr = FirstError))

C10_FailFast ==
    [][ /\ FailFast'
        /\ (artContents' # artContents =>
              /\ \A i \in Tasks : taskPc[i] = "done"
              /\ Failed = {}) ]_vars

C10_Witness ==
    /\ apc = "returned"
    /\ Len(artifactNames) = 3
    /\ doneOrder = <<3, 1, 2>>
    /\ loadErr = <<"not found", "context canceled", "">>
    /\ artErr = TaskError(artifactNames[1], "not found")
    /\ ~results[3].isNil
    /\ Len(artContents) = 2

(***************************************************************************)
(* Helpers of the detection rule of the artifact loader.                   *)
(***************************************************************************)
\* the request has a most recent turn with a first part
HasFirstPart(cs) ==
    /\ Len(cs) > 0
    /\ ~cs[Len(cs)].isNil
    /\ Len(cs[Len(cs)].parts) > 0

\* the first part of the most recent turn is a function result named
\* load_artifacts that carries the key artifact_names
IsLoadArtifactsResult(cs) ==
    /\ HasFirstPart(cs)
    /\ ~cs[Len(cs)].parts[1].isNil
    /\ cs[Len(cs)].parts[1].functionResponse.isSet
    /\ cs[Len(cs)].parts[1].functionResponse.name = "load_artifacts"
    /\ cs[Len(cs)].parts[1].functionResponse.hasArtifactNames

\* ... and the value of the key is a list of strings
IsLoadArtifactsNames(cs) ==
    /\ IsLoadArtifactsResult(cs)
    /\ cs[Len(cs)].parts[1].functionResponse.namesAreStrings

\* the call has returned without error, has started no task and has left
\* the turns as they were
NoOpStep ==
    /\ apc' = "returned"
    /\ artErr' = ""
    /\ taskPc' = <<>>
    /\ artContents' = artContents

(***************************************************************************)
(* C11 (as stated): unless the first part of the most recent turn is a     *)
(* function result named load_artifacts with a key artifact_names whose    *)
(* value is a list of strings, the detector returns no error, starts no    *)
(* Load task and leaves the turns unchanged.                               *)
(***************************************************************************)
C11_NoOpUnlessNamesList ==
    [][(apc = "start" /\ ~IsLoadArtifactsNames(artContents)) => NoOpStep]_vars

(***************************************************************************)
(* C11 (amended): only the first part of the most recent turn is           *)
(* inspected.  Unless it is a function                                     *)
(* result named load_artifacts with a key artifact_names, the detector is  *)
(* a no-op (no error, no Load task, turns unchanged); with the key present *)
(* and a value that is not a list of strings it returns an error, starts   *)
(* no Load task and leaves the turns unchanged; with an empty list of      *)
(* strings it is a no-op; tasks are started only for a non-empty list.     *)
(***************************************************************************)
C11_DetectionRule ==
    [][apc = "start" =>
        /\ artContents' = artContents
        /\ ~IsLoadArtifactsResult(artContents) => NoOpStep
        /\ (IsLoadArtifactsResult(artContents) /\ ~IsLoadArtifactsNames(artContents))
              => (apc' = "returned" /\ artErr' = ErrNamesType /\ taskPc' = <<>>)
        /\ (IsLoadArtifactsNames(artContents)
            /\ artContents[Len(artContents)].parts[1].functionResponse.artifactNames = <<>>)
              => NoOpStep
        /\ (taskPc' # <<>> => IsLoadArtifactsNames(artContents))
      ]_vars

C11_Witness ==
    /\ apc = "returned"
    /\ artErr = ErrNamesType
    /\ taskPc = <<>>
    /\ IsLoadArtifactsResult(artContents)
    /\ ~IsLoadArtifactsNames(artContents)

(***************************************************************************)
(* Batch mode: generate, ChatCompletion2LLMResponse, and the sequences     *)
(* GenerateContent returns in batch mode and on a translation error.       *)
(***************************************************************************)
\* openai.ChatCompletion
Completion(choices, usage) == [isNil |-> FALSE, choices |-> choices, usage |-> usage]

CompletionInputs ==
    { Completion(cs, u) :
        cs \in { <<>>,
                 <<Choice("Hi", "stop")>>,
                 <<Choice("", "length")>>,
                 <<Choice("Hi", "content_filter"), Choice("Ho", "stop")>> },
        u \in {ZeroUsage, Usage(3, 2, 5, 1)} }

\* what client.Chat.Completions.New may return: an error or a completion
ProviderAnswers ==
    {[err |-> "quota exceeded", completion |-> NoCompletion]}
    \cup {[err |-> "", completion |-> c] : c \in CompletionInputs}

\* the response is built from the last choice
ChatCompletion2LLMResponseLastChoice(resp) ==
    IF resp.isNil THEN NilResponse
    ELSE IF Len(resp.choices) = 0
    THEN [LLMResponse(NilContent, convertUsage(resp.usage), FALSE, FALSE, "")
            EXCEPT !.errorCode = "UNKNOWN_ERROR", !.errorMessage = "Unknown error."]
    ELSE LET choice == resp.choices[Len(resp.choices)]
         IN  LLMResponse(Content(RoleModel,
                                 IF choice.content # "" THEN <<TextPart(choice.content)>>
                                 ELSE <<>>),
                         convertUsage(resp.usage), FALSE, FALSE,
                         finishReason(choice.finishReason))

ChatCompletion2LLMResponse(resp) ==
    IF resp.isNil THEN NilResponse
    ELSE IF Len(resp.choices) = 0
    THEN [LLMResponse(NilContent, convertUsage(resp.usage), FALSE, FALSE, "")
            EXCEPT !.errorCode = "UNKNOWN_ERROR", !.errorMessage = "Unknown error."]
    ELSE LET choice == resp.choices[1]
         IN  LLMResponse(Content(RoleModel,
                                 IF choice.content # "" THEN <<TextPart(choice.content)>>
                                 ELSE <<>>),
                         convertUsage(resp.usage), FALSE, FALSE,
                         finishReason(choice.finishReason))

WrapGenerateErr(err) == <<"failed to generate content: ", err>>

\* generate, on the answer of the provider
generate(answer) ==
    IF answer.err # ""
    THEN StreamElement(NilResponse, WrapGenerateErr(answer.err))
    ELSE StreamElement(ChatCompletion2LLMResponse(answer.completion), "")

\* the sequence returned on a translation error is consumed: yield(nil, err)
YieldTranslationError ==
    /\ seqKind = "error"
    /\ output = <<>>
    /\ output' = <<StreamElement(NilResponse, genErr)>>
    /\ UNCHANGED <<contents, config, calls, messages, genErr, stream, seqKind,
                   providerCalls, completion>>
    /\ UNCHANGED <<streamVars, artifactVars, toolVars>>

\* the batch sequence is consumed: the request is sent and the result of
\* generate is yielded
YieldGenerate ==
    /\ seqKind = "batch"
    /\ output = <<>>
    /\ \E answer \in ProviderAnswers :
          /\ completion' = answer
          /\ output' = <<generate(answer)>>
    /\ providerCalls' = providerCalls + 1
    /\ UNCHANGED <<contents, config, calls, messages, genErr, stream, seqKind>>
    /\ UNCHANGED <<streamVars, artifactVars, toolVars>>

\* the requests GenerateContent is called with
GenerateRequests ==
    { <<>>,
      <<NewContentFromText("a", "user")>>,
      <<NewContentFromText("a", "user"), NewContentFromText("b", "model")>> }

InitGenerate ==
    /\ contents \in GenerateRequests
    /\ config \in Configs
    /\ calls = 0
    /\ messages = <<>>
    /\ genErr = ""
    /\ SequenceIdle
    /\ StreamIdle
    /\ ArtifactsIdle
    /\ ToolsIdle

NextGenerate ==
    \/ \E s \in BOOLEAN : GenerateContentCall(s)
    \/ YieldTranslationError
    \/ YieldGenerate

SpecGenerate == InitGenerate /\ [][NextGenerate]_vars

(***************************************************************************)
(* C12: with top-k set, or a response MIME type other than empty and       *)
(* text/plain, GenerateContent, streaming or not, returns a sequence of    *)
(* one element carrying that error and no response, and no request is      *)
(* sent to the provider.                                                   *)
(***************************************************************************)
ConfigError(cfg) ==
    /\ ~cfg.isNil
    /\ (cfg.topK \/ cfg.responseMIMEType \notin {"", "text/plain"})

C12_ConfigErrorBeforeProviderCall ==
    ConfigError(config) =>
        /\ providerCalls = 0
        /\ (calls >= 1 => seqKind = "error")
        /\ (output # <<>> =>
              /\ Len(output) = 1
              /\ output[1].resp = NilResponse
              /\ output[1].err = IF config.topK THEN "top_k is not supported"
                                 ELSE "response_mime_type is not supported")

C12_Witness ==
    /\ ConfigError(config)
    /\ ~config.topK
    /\ calls = 2
    /\ stream
    /\ Len(output) = 1
    /\ providerCalls = 0

(***************************************************************************)
(* C16: in batch mode the sequence yields one element: the error and no    *)
(* response when the provider call fails; otherwise one response built     *)
(* from the first choice, and with no choice a response without content    *)
(* that carries UNKNOWN_ERROR / "Unknown error." and the usage, and no     *)
(* error value.                                                            *)
(***************************************************************************)
\* the canonical finish reason of a provider finish reason
MappedFinish(reason) ==
    CASE reason = "stop" -> "STOP"
      [] reason = "length" -> "MAX_TOKENS"
      [] reason = "content_filter" -> "SAFETY"
      [] reason \in {"tool_calls", "function_call"} -> "STOP"

C16_BatchYieldsOneElement ==
    (seqKind = "batch" /\ output # <<>>) =>
        /\ Len(output) = 1
        /\ (completion.err # "" =>
              /\ output[1].resp = NilResponse
              /\ output[1].err = WrapGenerateErr(completion.err))
        /\ (completion.err = "" =>
              LET c == completion.completion
                  r == output[1].resp
              IN  /\ output[1].err = ""
                  /\ ~r.isNil
                  /\ r.usageMetadata.promptTokenCount = c.usage.promptTokens
                  /\ r.usageMetadata.candidatesTokenCount = c.usage.completionTokens
                  /\ r.usageMetadata.totalTokenCount = c.usage.totalTokens
                  /\ IF Len(c.choices) = 0
                     THEN /\ r.content.isNil
                          /\ r.errorCode = "UNKNOWN_ERROR"
                          /\ r.errorMessage = "Unknown error."
                     ELSE /\ r.errorCode = ""
                          /\ r.content.role = "model"
                          /\ r.content.parts =
                                IF c.choices[1].content = "" THEN <<>>
                                ELSE <<TextPart(c.choices[1].content)>>
                          /\ r.finishReason = MappedFinish(c.choices[1].finishReason))

C16_Witness ==
    /\ seqKind = "batch"
    /\ Len(output) = 1
    /\ completion.err = ""
    /\ Len(completion.completion.choices) = 0
    /\ output[1].resp.errorCode = "UNKNOWN_ERROR"
    /\ output[1].resp.usageMetadata.totalTokenCount = 5

(***************************************************************************)
(* Helpers of the usage accounting.                                        *)
(***************************************************************************)
\* the token counts of a response: prompt, completion, total
UsageCounts(resp) ==
    IF resp.usageMetadata.isNil THEN <<0, 0, 0>>
    ELSE <<resp.usageMetadata.promptTokenCount,
           resp.usageMetadata.candidatesTokenCount,
           resp.usageMetadata.totalTokenCount>>

RECURSIVE SumUsage(_)
SumUsage(evs) ==
    IF evs = <<>> THEN <<0, 0, 0>>
    ELSE LET h == UsageCounts(Head(evs))
             t == SumUsage(Tail(evs))
         IN  <<h[1] + t[1], h[2] + t[2], h[3] + t[3]>>

\* the stream has been read to its end without error and without a stop
FullyConsumed == spc = "done" /\ ~stopped /\ streamErr = ""

\* the chunks received that carry usage data
UsageChunks == {i \in 1..Len(received) : received[i].usageValid}

\* the stream sums to what the batch translator reports for the same usage
SumsToBatch(u) ==
    \A c \in CompletionInputs :
        c.usage = u => SumUsage(Events) = UsageCounts(ChatCompletion2LLMResponse(c))

(***************************************************************************)
(* C13 (as stated): for a stream that carries the usage figures of the     *)
(* provider output on one of its chunks, whichever it is, the token counts *)
(* summed over the emitted events are those of the batch event for the     *)
(* same figures.                                                           *)
(***************************************************************************)
C13_UsageAdditive ==
    (FullyConsumed /\ Cardinality(UsageChunks) = 1) =>
        \A i \in UsageChunks : SumsToBatch(received[i].usage)

(***************************************************************************)
(* C13 (amended): the same, when the chunk that carries the usage figures  *)
(* has no choice or has a finish reason on its first choice; usage carried *)
(* by a chunk whose first choice has no finish reason is not reported.     *)
(***************************************************************************)
ReportsUsage(chunk) ==
    \/ Len(chunk.choices) = 0
    \/ chunk.choices[1].finishReason # ""

C13_UsageAdditiveOnTerminalChunks ==
    (FullyConsumed /\ Cardinality(UsageChunks) = 1) =>
        \A i \in UsageChunks :
            /\ ReportsUsage(received[i]) => SumsToBatch(received[i].usage)
            /\ ~ReportsUsage(received[i]) => SumUsage(Events) = <<0, 0, 0>>

C13_Witness ==
    /\ FullyConsumed
    /\ Len(received) = 3
    /\ UsageChunks = {2}
    /\ Len(received[2].choices) = 1
    /\ received[2].choices[1].finishReason = "stop"
    /\ Len(Events) = 3
    /\ SumUsage(Events) = <<3, 2, 5>>

(***************************************************************************)
(* The function tool (load_artifacts_tool.go, functionTool).               *)
(*                                                                         *)
(* Go values are modelled by their JSON shape: a kind, the text of a       *)
(* scalar and, for an object, the mapping from its keys to its members.    *)
(***************************************************************************)
NoMembers == [k \in {} |-> ""]
IntegerValue == [kind |-> "integer", scalar |-> "7", members |-> NoMembers]
StringValue == [kind |-> "string", scalar |-> "ok", members |-> NoMembers]
ObjectValue(m) == [kind |-> "object", scalar |-> "", members |-> m]

\* a map[string]any; the nil map is what a failed conversion returns
NilMap == [isNil |-> TRUE]
Map(m) == [isNil |-> FALSE, entries |-> m]

\* the args Run may be handed: not a map, or a map
ToolArguments ==
    {StringValue,
     ObjectValue([k \in {"id"} |-> IntegerValue]),
     ObjectValue([k \in {"result"} |-> StringValue])}

\* what a handler may return
ToolValues ==
    {IntegerValue, StringValue,
     ObjectValue([k \in {"id"} |-> IntegerValue]),
     ObjectValue([k \in {"result"} |-> StringValue])}

\* a resolved JSON schema: the type it demands and the keys it requires
NilSchema == [isNil |-> TRUE]
Schema(type, required) == [isNil |-> FALSE, type |-> type, required |-> required]

ToolSchemas ==
    {Schema("integer", {}), Schema("string", {}),
     Schema("object", {}), Schema("object", {"id"})}

\* the input schema describes the argument object
InputSchemas == {Schema("object", {}), Schema("object", {"id"})}

ErrValidate == "validate: value does not match the schema"
ErrNotAMap == "convert: cannot unmarshal value into a map"
ErrConvertSchema == "convert: value does not match the schema"
ErrArgsType == "unexpected args type"

\* jsonschema.Resolved.Validate: the error, "" = nil
Validate(schema, value) ==
    IF /\ schema.type = value.kind
       /\ value.kind = "object" => schema.required \subseteq DOMAIN value.members
    THEN ""
    ELSE ErrValidate

\* typeutil.ConvertToWithJSONSchema: the value goes through its JSON form
\* into a map, which is validated against the schema when there is one; a
\* failed conversion returns the zero value with the error
ConvertToWithJSONSchema(value, schema) ==
    IF value.kind # "object"
    THEN [value |-> NilMap, err |-> ErrNotAMap]
    ELSE IF ~schema.isNil /\ Validate(schema, value) # ""
    THEN [value |-> NilMap, err |-> ErrConvertSchema]
    ELSE [value |-> Map(value.members), err |-> ""]

\* the output is wrapped whenever its conversion fails
functionTool_RunWrapWithoutValidate(tool, args, out) ==
    IF args.kind # "object"
    THEN [resp |-> NilMap, err |-> ErrArgsType, called |-> FALSE]
    ELSE LET input == ConvertToWithJSONSchema(args, tool.inputSchema) IN
         IF input.err # ""
         THEN [resp |-> NilMap, err |-> input.err, called |-> FALSE]
         ELSE LET conv == ConvertToWithJSONSchema(out, tool.outputSchema) IN
              IF conv.err = ""
              THEN [resp |-> conv.value, err |-> "", called |-> TRUE]
              ELSE [resp |-> Map([k \in {"result"} |-> out]), err |-> "",
                    called |-> TRUE]

\* functionTool.Run, for the arguments args and a handler that returns out;
\* called tells whether the handler has been invoked
functionTool_Run(tool, args, out) ==
    IF args.kind # "object"
    THEN [resp |-> NilMap, err |-> ErrArgsType, called |-> FALSE]
    ELSE LET input == ConvertToWithJSONSchema(args, tool.inputSchema) IN
         IF input.err # ""
         THEN [resp |-> NilMap, err |-> input.err, called |-> FALSE]
         ELSE LET conv == ConvertToWithJSONSchema(out, tool.outputSchema) IN
              IF conv.err = ""
              THEN [resp |-> conv.value, err |-> "", called |-> TRUE]
              ELSE IF /\ ~tool.outputSchema.isNil
                      /\ Validate(tool.outputSchema, out) # ""
              THEN [resp |-> conv.value, err |-> conv.err, called |-> TRUE]
              ELSE [resp |-> Map([k \in {"result"} |-> out]), err |-> "",
                    called |-> TRUE]

\* New: both schemas are resolved, from the override of the configuration
\* or from the type
FunctionTools ==
    {[isNil |-> FALSE, inputSchema |-> i, outputSchema |-> o] :
        i \in InputSchemas, o \in ToolSchemas}

\* one call of functionTool.Run
CallFunctionTool ==
    /\ ~fnTool.isNil
    /\ \E args \in ToolArguments, out \in ToolValues :
        LET r == functionTool_Run(fnTool, args, out) IN
        fnRun' = [ran |-> TRUE, args |-> args, out |-> out,
                  called |-> r.called, resp |-> r.resp, err |-> r.err]
    /\ UNCHANGED <<fnTool, mcpRun, mcpRuns, sessionRequests, remoteCalls>>
    /\ UNCHANGED <<requestVars, streamVars, artifactVars>>

(***************************************************************************)
(* The MCP tool (tool.go, mcpTool).                                        *)
(***************************************************************************)
TextContent(text) == [type |-> "text", text |-> text]
ImageContent == [type |-> "image", data |-> "png"]

\* res.Content: up to two items, with and without text
ContentLists ==
    {<<>>,
     <<TextContent("a")>>, <<TextContent("")>>, <<ImageContent>>,
     <<TextContent("a"), TextContent("b")>>,
     <<TextContent("b"), TextContent("a")>>,
     <<ImageContent, TextContent("a")>>,
     <<TextContent(""), ImageContent>>}

NilStructured == [isNil |-> TRUE]
Structured(value) == [isNil |-> FALSE, value |-> value]
NilCallToolResult == [isNil |-> TRUE]
CallToolResult(isError, structured, content) ==
    [isNil |-> FALSE, isError |-> isError, structuredContent |-> structured,
     content |-> content]

\* what the remote side does on one Run: getSessionFunc fails, CallTool
\* fails, or CallTool returns a result
RemoteAnswer(sessionErr, callErr, res) ==
    [sessionErr |-> sessionErr, callErr |-> callErr, res |-> res]

RemoteAnswers ==
    {RemoteAnswer("connection refused", "", NilCallToolResult),
     RemoteAnswer("", "timeout", NilCallToolResult)}
    \cup {RemoteAnswer("", "", CallToolResult(e, st, c)) :
            e \in BOOLEAN,
            st \in {NilStructured,
                    Structured(ObjectValue([k \in {"id"} |-> IntegerValue]))},
            c \in ContentLists}

\* a Go string as a value
StringOf(text) == [kind |-> "string", scalar |-> text, members |-> NoMembers]

\* the loop over res.Content: the texts of the TextContent items, written
\* to the builder in order
RECURSIVE writeTexts(_)
writeTexts(content) ==
    IF content = <<>> THEN ""
    ELSE LET c == Head(content) IN
         (IF c.type = "text" THEN c.text ELSE "") \o writeTexts(Tail(content))

ErrToolFailed == "Tool execution failed."
ErrNoText == "no text content in tool response"

\* the text of the response is looked at before its structured content
mcpTool_RunTextFirst(answer) ==
    IF answer.sessionErr # ""
    THEN [resp |-> NilMap, err |-> "failed to get session: " \o answer.sessionErr,
          called |-> FALSE]
    ELSE IF answer.callErr # ""
    THEN [resp |-> NilMap, err |-> "failed to call MCP tool: " \o answer.callErr,
          called |-> TRUE]
    ELSE LET res == answer.res
             text == writeTexts(res.content)
         IN  IF res.isError
             THEN [resp |-> NilMap,
                   err |-> IF Len(text) > 0
                           THEN ErrToolFailed \o " Details: " \o text
                           ELSE ErrToolFailed,
                   called |-> TRUE]
             ELSE IF Len(text) > 0
             THEN [resp |-> Map([k \in {"output"} |-> StringOf(text)]),
                   err |-> "", called |-> TRUE]
             ELSE IF ~res.structuredContent.isNil
             THEN [resp |-> Map([k \in {"output"} |-> res.structuredContent.value]),
                   err |-> "", called |-> TRUE]
             ELSE [resp |-> NilMap, err |-> ErrNoText, called |-> TRUE]

\* mcpTool.Run; called tells whether session.CallTool has been called
mcpTool_Run(answer) ==
    IF answer.sessionErr # ""
    THEN [resp |-> NilMap, err |-> "failed to get session: " \o answer.sessionErr,
          called |-> FALSE]
    ELSE IF answer.callErr # ""
    THEN [resp |-> NilMap, err |-> "failed to call MCP tool: " \o answer.callErr,
          called |-> TRUE]
    ELSE LET res == answer.res
             text == writeTexts(res.content)
         IN  IF res.isError
             THEN [resp |-> NilMap,
                   err |-> IF Len(text) > 0
                           THEN ErrToolFailed \o " Details: " \o text
                           ELSE ErrToolFailed,
                   called |-> TRUE]
             ELSE IF ~res.structuredContent.isNil
             THEN [resp |-> Map([k \in {"output"} |-> res.structuredContent.value]),
                   err |-> "", called |-> TRUE]
             ELSE IF Len(text) = 0
             THEN [resp |-> NilMap, err |-> ErrNoText, called |-> TRUE]
             ELSE [resp |-> Map([k \in {"output"} |-> StringOf(text)]),
                   err |-> "", called |-> TRUE]

\* one call of mcpTool.Run
CallMcpTool ==
    /\ mcpRuns < MaxRuns
    /\ \E answer \in RemoteAnswers :
        LET r == mcpTool_Run(answer) IN
        /\ mcpRun' = [ran |-> TRUE, answer |-> answer, resp |-> r.resp,
                      err |-> r.err]
        /\ remoteCalls' = IF r.called THEN remoteCalls + 1 ELSE remoteCalls
    /\ mcpRuns' = mcpRuns + 1
    /\ sessionRequests' = sessionRequests + 1
    /\ UNCHANGED <<fnTool, fnRun>>
    /\ UNCHANGED <<requestVars, streamVars, artifactVars>>

InitTools ==
    /\ fnTool \in FunctionTools
    /\ fnRun = NoRun
    /\ mcpRun = NoRun
    /\ mcpRuns = 0
    /\ sessionRequests = 0
    /\ remoteCalls = 0
    /\ RequestIdle
    /\ StreamIdle
    /\ ArtifactsIdle

NextTools ==
    \/ CallFunctionTool
    \/ CallMcpTool

SpecTools == InitTools /\ [][NextTools]_vars

(***************************************************************************)
(* Helpers of the tool properties.                                         *)
(***************************************************************************)
\* the last functionTool.Run was made with arguments the tool accepts
ValidArguments ==
    /\ fnRun.ran
    /\ fnRun.args.kind = "object"
    /\ ConvertToWithJSONSchema(fnRun.args, fnTool.inputSchema).err = ""

\* the step is one mcpTool.Run
McpRunStep == mcpRuns' = mcpRuns + 1

(***************************************************************************)
(* C14: for valid arguments, Run returns the mapping the handler's result  *)
(* converts to when the conversion via the output schema succeeds;         *)
(* otherwise, when the raw result validates against the output schema, it  *)
(* returns the mapping {result: value} and no error; otherwise it returns  *)
(* the error of the conversion, not that of the validation, and no         *)
(* mapping.                                                                *)
(***************************************************************************)
C14_ResultWrapping ==
    ValidArguments =>
        LET conv == ConvertToWithJSONSchema(fnRun.out, fnTool.outputSchema) IN
        IF conv.err = ""
        THEN /\ fnRun.resp = Map(fnRun.out.members)
             /\ fnRun.err = ""
        ELSE IF Validate(fnTool.outputSchema, fnRun.out) = ""
        THEN /\ fnRun.resp = Map([k \in {"result"} |-> fnRun.out])
             /\ fnRun.err = ""
        ELSE /\ fnRun.resp = NilMap
             /\ fnRun.err = conv.err
             /\ fnRun.err # ErrValidate

C14_Witness ==
    /\ ValidArguments
    /\ fnRun.out = IntegerValue
    /\ fnTool.outputSchema = Schema("integer", {})
    /\ fnRun.resp = Map([k \in {"result"} |-> IntegerValue])
    /\ fnRun.err = ""

(***************************************************************************)
(* C15: every Run of the MCP tool requests one session; a session failure  *)
(* or a call failure gives an error, and after a session failure the       *)
(* remote tool is not called; a response flagged as error gives an error   *)
(* whose message carries the text fragments of the response, concatenated  *)
(* in order; a response with structured content gives that content, text   *)
(* or not; a response with text only gives the concatenated text; a        *)
(* response with no structured content and no text (none, or only empty    *)
(* text) gives an error and no result.                                     *)
(***************************************************************************)
C15_McpRunOutcome ==
    [][McpRunStep =>
        LET a == mcpRun'.answer
            resp == mcpRun'.resp
            err == mcpRun'.err
        IN  /\ sessionRequests' = sessionRequests + 1
            /\ a.sessionErr # "" =>
                 /\ remoteCalls' = remoteCalls
                 /\ resp = NilMap /\ err # ""
            /\ a.sessionErr = "" => remoteCalls' = remoteCalls + 1
            /\ (a.sessionErr = "" /\ a.callErr # "") =>
                 resp = NilMap /\ err # ""
            /\ (a.sessionErr = "" /\ a.callErr = "") =>
                 LET text == writeTexts(a.res.content) IN
                 IF a.res.isError
                 THEN /\ resp = NilMap
                      /\ err = IF text = "" THEN ErrToolFailed
                               ELSE ErrToolFailed \o " Details: " \o text
                 ELSE IF ~a.res.structuredContent.isNil
                 THEN /\ resp = Map([k \in {"output"} |->
                                        a.res.structuredContent.value])
                      /\ err = ""
                 ELSE IF text # ""
                 THEN /\ resp = Map([k \in {"output"} |-> StringOf(text)])
                      /\ err = ""
                 ELSE resp = NilMap /\ err = ErrNoText
    ]_vars

C15_Witness ==
    /\ mcpRuns = 2
    /\ sessionRequests = 2
    /\ remoteCalls = 1
    /\ mcpRun.ran
    /\ mcpRun.answer.sessionErr = ""
    /\ mcpRun.answer.callErr = ""
    /\ ~mcpRun.answer.res.isError
    /\ ~mcpRun.answer.res.structuredContent.isNil
    /\ mcpRun.answer.res.content = <<TextContent("a"), TextContent("b")>>
    /\ mcpRun.resp = Map([k \in {"output"} |->
                             ObjectValue([k2 \in {"id"} |-> IntegerValue])])
    /\ mcpRun.err = ""

(***************************************************************************)
(* C17: the message list of every request that is translated without error *)
(* is not empty and ends with a user message.                              *)
(***************************************************************************)
C17_LastMessageIsUser ==
    Translated =>
        /\ Len(messages) > 0
        /\ messages[Len(messages)].role = "user"

====
